---- MODULE Spec2Model ----
(***************************************************************************)
(* The libretro constant catalog of src/lib.rs: a flat table of            *)
(* `pub const NAME: libc::c_uint = value;` items.  The catalog is the      *)
(* program's only data; it is read by consumers (cores and frontends)      *)
(* that look names up and combine the values with Rust's u32 operators     *)
(* `|`, `&`, `!`, `<<` and `>>`.                                           *)
(*                                                                         *)
(* A u32 is modelled as the set of its set bit positions (a subset of      *)
(* 0..W-1), so that values at or above 2^31 are representable and the      *)
(* operators are modelled by what they do to the bits.                     *)
(***************************************************************************)
EXTENDS Integers, FiniteSets, Sequences, TLC

\* Width in bits of libc::c_uint, the type of every constant.
W == 32

\* The set bit positions of a non-negative integer below 2^(W-1).
Bits(n) == {i \in 0..(W - 2) : (n \div (2 ^ i)) % 2 = 1}

\* The integer with exactly the bits of b set (b must not hold bit W-1).
RECURSIVE ValUpTo(_, _)
ValUpTo(b, i) ==
  IF i < 0 THEN 0
  ELSE (IF i \in b THEN 2 ^ i ELSE 0) + ValUpTo(b, i - 1)

Val(b) == ValUpTo(b, W - 1)

\* Rust's operators on u32, on bit sets.
OrB(a, b) == a \cup b
AndB(a, b) == a \cap b
NotB(a) == (0..(W - 1)) \ a
\* a << n drops the bits shifted past the top; a >> n those past the bottom.
ShlB(a, n) == {i + n : i \in {j \in a : j + n <= W - 1}}
ShrB(a, n) == {i - n : i \in {j \in a : j >= n}}

\* The same operators inside constant expressions, on integers.
BitOr(x, y) == Val(OrB(Bits(x), Bits(y)))
BitAnd(x, y) == Val(AndB(Bits(x), Bits(y)))
Shl(x, n) == Val(ShlB(Bits(x), n))
Shr(x, n) == Val(ShrB(Bits(x), n))

(***************************************************************************)
(* The constants, in source order, each with the expression of the source. *)
(***************************************************************************)

\* API_VERSION incremented for a compatible change.
Mut_API_VERSION == 1 + 1
API_VERSION == 1
\* A shift by the whole width of the type.
Mut_DEVICE_TYPE_SHIFT_Wide == W + 0
DEVICE_TYPE_SHIFT == 8

\* DEVICE_MASK with the "- 1" forgotten.
Mut_DEVICE_MASK_NoMinus == Shl(1, DEVICE_TYPE_SHIFT)

\* DEVICE_MASK with the "- 1" taken from the shift count.
Mut_DEVICE_MASK_Paren == Shl(1, DEVICE_TYPE_SHIFT - 1)
DEVICE_MASK == Shl(1, DEVICE_TYPE_SHIFT) - 1

DEVICE_NONE == 0
DEVICE_JOYPAD == 1
DEVICE_MOUSE == 2
DEVICE_KEYBOARD == 3
DEVICE_LIGHTGUN == 4
\* The analog type given the lightgun's number.
Mut_DEVICE_ANALOG == DEVICE_LIGHTGUN + 0
DEVICE_ANALOG == 5
DEVICE_POINTER == 6
DEVICE_ID_JOYPAD_B == 0
DEVICE_ID_JOYPAD_Y == 1
DEVICE_ID_JOYPAD_SELECT == 2
DEVICE_ID_JOYPAD_START == 3
DEVICE_ID_JOYPAD_UP == 4
DEVICE_ID_JOYPAD_DOWN == 5
DEVICE_ID_JOYPAD_LEFT == 6
DEVICE_ID_JOYPAD_RIGHT == 7
\* The A button given the id of the entry before it.
Mut_DEVICE_ID_JOYPAD_A == DEVICE_ID_JOYPAD_RIGHT + 0
DEVICE_ID_JOYPAD_A == 8
DEVICE_ID_JOYPAD_X == 9
DEVICE_ID_JOYPAD_L == 10
DEVICE_ID_JOYPAD_R == 11
DEVICE_ID_JOYPAD_L2 == 12
DEVICE_ID_JOYPAD_R2 == 13
DEVICE_ID_JOYPAD_L3 == 14
DEVICE_ID_JOYPAD_R3 == 15
\* The bitmask id placed on the last button's id.
Mut_DEVICE_ID_JOYPAD_MASK == DEVICE_ID_JOYPAD_R3 + 0
DEVICE_ID_JOYPAD_MASK == 256
DEVICE_INDEX_ANALOG_LEFT == 0
DEVICE_INDEX_ANALOG_RIGHT == 1
\* The button index placed on the right stick's index.
Mut_DEVICE_INDEX_ANALOG_BUTTON == DEVICE_INDEX_ANALOG_RIGHT + 0
DEVICE_INDEX_ANALOG_BUTTON == 2
DEVICE_ID_ANALOG_X == 0
DEVICE_ID_ANALOG_Y == 1
DEVICE_ID_MOUSE_X == 0
DEVICE_ID_MOUSE_Y == 1
DEVICE_ID_MOUSE_LEFT == 2
DEVICE_ID_MOUSE_RIGHT == 3
DEVICE_ID_MOUSE_WHEELUP == 4
DEVICE_ID_MOUSE_WHEELDOWN == 5
DEVICE_ID_MOUSE_MIDDLE == 6
DEVICE_ID_MOUSE_HORIZ_WHEELUP == 7
DEVICE_ID_MOUSE_HORIZ_WHEELDOWN == 8
DEVICE_ID_MOUSE_BUTTON_4 == 9
DEVICE_ID_MOUSE_BUTTON_5 == 10
DEVICE_ID_LIGHTGUN_SCREEN_X == 13
DEVICE_ID_LIGHTGUN_SCREEN_Y == 14
DEVICE_ID_LIGHTGUN_IS_OFFSCREEN == 15

\* TRIGGER numbered in sequence after IS_OFFSCREEN.
Mut_DEVICE_ID_LIGHTGUN_TRIGGER == DEVICE_ID_LIGHTGUN_IS_OFFSCREEN + 1
DEVICE_ID_LIGHTGUN_TRIGGER == 2

\* RELOAD numbered one past the end of the lightgun ids.
Mut_DEVICE_ID_LIGHTGUN_RELOAD == DEVICE_ID_LIGHTGUN_IS_OFFSCREEN + 2
DEVICE_ID_LIGHTGUN_RELOAD == 16
DEVICE_ID_LIGHTGUN_AUX_A == 3
DEVICE_ID_LIGHTGUN_AUX_B == 4
DEVICE_ID_LIGHTGUN_START == 6
DEVICE_ID_LIGHTGUN_SELECT == 7
DEVICE_ID_LIGHTGUN_AUX_C == 8
DEVICE_ID_LIGHTGUN_DPAD_UP == 9
DEVICE_ID_LIGHTGUN_DPAD_DOWN == 10
DEVICE_ID_LIGHTGUN_DPAD_LEFT == 11
DEVICE_ID_LIGHTGUN_DPAD_RIGHT == 12
DEVICE_ID_LIGHTGUN_X == 0
DEVICE_ID_LIGHTGUN_Y == 1
DEVICE_ID_LIGHTGUN_CURSOR == 3
\* The deprecated TURBO aliased to AUX_A instead of AUX_B.
Mut_DEVICE_ID_LIGHTGUN_TURBO == DEVICE_ID_LIGHTGUN_AUX_A + 0
DEVICE_ID_LIGHTGUN_TURBO == 4

\* The deprecated PAUSE given the value of START, the id that replaces it.
Mut_DEVICE_ID_LIGHTGUN_PAUSE == DEVICE_ID_LIGHTGUN_START + 0
DEVICE_ID_LIGHTGUN_PAUSE == 5
DEVICE_ID_POINTER_X == 0
DEVICE_ID_POINTER_Y == 1
DEVICE_ID_POINTER_PRESSED == 2
DEVICE_ID_POINTER_COUNT == 3
REGION_NTSC == 0

\* REGION_PAL given the value of REGION_NTSC.
Mut_REGION_PAL == REGION_NTSC + 0
REGION_PAL == 1

\* MEMORY_MASK written as 0x100.
Mut_MEMORY_MASK == 2 ^ 8

MEMORY_MASK == 255
MEMORY_SAVE_RAM == 0
MEMORY_RTC == 1
MEMORY_SYSTEM_RAM == 2
MEMORY_VIDEO_RAM == 3

\* ENVIRONMENT_EXPERIMENTAL written as 0x1000.
Mut_ENVIRONMENT_EXPERIMENTAL == 2 ^ 12

\* The experimental flag written a hex digit short of its position: 0x10.
Mut_ENVIRONMENT_EXPERIMENTAL_Low == 2 ^ 4
ENVIRONMENT_EXPERIMENTAL == 65536

\* ENVIRONMENT_PRIVATE given the bit of ENVIRONMENT_EXPERIMENTAL.
Mut_ENVIRONMENT_PRIVATE == ENVIRONMENT_EXPERIMENTAL + 0

ENVIRONMENT_PRIVATE == 131072
ENVIRONMENT_SET_ROTATION == 1
ENVIRONMENT_GET_OVERSCAN == 2
ENVIRONMENT_GET_CAN_DUPE == 3
\* The message command numbered right after the entry before it.
Mut_SET_MESSAGE == ENVIRONMENT_GET_CAN_DUPE + 1
ENVIRONMENT_SET_MESSAGE == 6
ENVIRONMENT_SHUTDOWN == 7
ENVIRONMENT_SET_PERFORMANCE_LEVEL == 8
ENVIRONMENT_GET_SYSTEM_DIRECTORY == 9
ENVIRONMENT_SET_PIXEL_FORMAT == 10
ENVIRONMENT_SET_INPUT_DESCRIPTORS == 11
ENVIRONMENT_SET_KEYBOARD_CALLBACK == 12
ENVIRONMENT_SET_DISK_CONTROL_INTERFACE == 13
ENVIRONMENT_SET_HW_RENDER == 14
ENVIRONMENT_GET_VARIABLE == 15
ENVIRONMENT_SET_VARIABLES == 16
ENVIRONMENT_GET_VARIABLE_UPDATE == 17
ENVIRONMENT_SET_SUPPORT_NO_GAME == 18
ENVIRONMENT_GET_LIBRETRO_PATH == 19
ENVIRONMENT_SET_FRAME_TIME_CALLBACK == 21
ENVIRONMENT_SET_AUDIO_CALLBACK == 22
ENVIRONMENT_GET_RUMBLE_INTERFACE == 23
ENVIRONMENT_GET_INPUT_DEVICE_CAPABILITIES == 24

\* GET_SENSOR_INTERFACE flagged PRIVATE instead of EXPERIMENTAL.
Mut_GET_SENSOR_INTERFACE_Private == BitOr(25, ENVIRONMENT_PRIVATE)

\* GET_SENSOR_INTERFACE given the code of GET_CAMERA_INTERFACE.
Mut_GET_SENSOR_INTERFACE_Code == BitOr(26, ENVIRONMENT_EXPERIMENTAL)
ENVIRONMENT_GET_SENSOR_INTERFACE == BitOr(25, ENVIRONMENT_EXPERIMENTAL)


\* GET_CAMERA_INTERFACE given the code of GET_SENSOR_INTERFACE.
Mut_GET_CAMERA_INTERFACE == BitOr(25, ENVIRONMENT_EXPERIMENTAL)
ENVIRONMENT_GET_CAMERA_INTERFACE == BitOr(26, ENVIRONMENT_EXPERIMENTAL)
ENVIRONMENT_GET_LOG_INTERFACE == 27
ENVIRONMENT_GET_PERF_INTERFACE == 28
ENVIRONMENT_GET_LOCATION_INTERFACE == 29
ENVIRONMENT_GET_CONTENT_DIRECTORY == 30
ENVIRONMENT_GET_SAVE_DIRECTORY == 31
ENVIRONMENT_SET_SYSTEM_AV_INFO == 32
ENVIRONMENT_SET_PROC_ADDRESS_CALLBACK == 33
ENVIRONMENT_SET_SUBSYSTEM_INFO == 34
ENVIRONMENT_SET_CONTROLLER_INFO == 35
ENVIRONMENT_SET_MEMORY_MAPS == BitOr(36, ENVIRONMENT_EXPERIMENTAL)
ENVIRONMENT_SET_GEOMETRY == 37
ENVIRONMENT_GET_USERNAME == 38
ENVIRONMENT_GET_LANGUAGE == 39
ENVIRONMENT_GET_CURRENT_SOFTWARE_FRAMEBUFFER == BitOr(40, ENVIRONMENT_EXPERIMENTAL)
ENVIRONMENT_GET_HW_RENDER_INTERFACE == BitOr(41, ENVIRONMENT_EXPERIMENTAL)
ENVIRONMENT_SET_SUPPORT_ACHIEVEMENTS == BitOr(42, ENVIRONMENT_EXPERIMENTAL)
ENVIRONMENT_SET_HW_RENDER_CONTEXT_NEGOTIATION_INTERFACE == BitOr(43, ENVIRONMENT_EXPERIMENTAL)
ENVIRONMENT_SET_SERIALIZATION_QUIRKS == 44

\* SET_HW_SHARED_CONTEXT with the EXPERIMENTAL flag left out.
Mut_SET_HW_SHARED_CONTEXT == BitOr(44, 0)
ENVIRONMENT_SET_HW_SHARED_CONTEXT == BitOr(44, ENVIRONMENT_EXPERIMENTAL)

ENVIRONMENT_GET_VFS_INTERFACE == BitOr(45, ENVIRONMENT_EXPERIMENTAL)
ENVIRONMENT_GET_LED_INTERFACE == BitOr(46, ENVIRONMENT_EXPERIMENTAL)
ENVIRONMENT_GET_AUDIO_VIDEO_ENABLE == BitOr(47, ENVIRONMENT_EXPERIMENTAL)
ENVIRONMENT_GET_MIDI_INTERFACE == BitOr(48, ENVIRONMENT_EXPERIMENTAL)
ENVIRONMENT_GET_FASTFORWARDING == BitOr(49, ENVIRONMENT_EXPERIMENTAL)
ENVIRONMENT_GET_TARGET_REFRESH_RATE == BitOr(50, ENVIRONMENT_EXPERIMENTAL)
\* The input-bitmask query published without its experimental flag.
Mut_GET_INPUT_BITMASKS == BitOr(51, 0)
ENVIRONMENT_GET_INPUT_BITMASKS == BitOr(51, ENVIRONMENT_EXPERIMENTAL)
ENVIRONMENT_GET_CORE_OPTIONS_VERSION == 52
ENVIRONMENT_SET_CORE_OPTIONS == 53
ENVIRONMENT_SET_CORE_OPTIONS_INTL == 54
ENVIRONMENT_SET_CORE_OPTIONS_DISPLAY == 55
ENVIRONMENT_GET_PREFERRED_HW_RENDER == 56
ENVIRONMENT_GET_DISK_CONTROL_INTERFACE_VERSION == 57
ENVIRONMENT_SET_DISK_CONTROL_EXT_INTERFACE == 58
ENVIRONMENT_GET_MESSAGE_INTERFACE_VERSION == 59
ENVIRONMENT_SET_MESSAGE_EXT == 60
ENVIRONMENT_GET_INPUT_MAX_USERS == 61
ENVIRONMENT_SET_AUDIO_BUFFER_STATUS_CALLBACK == 62
ENVIRONMENT_SET_MINIMUM_AUDIO_LATENCY == 63
ENVIRONMENT_SET_FASTFORWARDING_OVERRIDE == 64
ENVIRONMENT_SET_CONTENT_INFO_OVERRIDE == 65
ENVIRONMENT_GET_GAME_INFO_EXT == 66
ENVIRONMENT_SET_CORE_OPTIONS_V2 == 67
ENVIRONMENT_SET_CORE_OPTIONS_V2_INTL == 68
ENVIRONMENT_SET_CORE_OPTIONS_UPDATE_DISPLAY_CALLBACK == 69
ENVIRONMENT_SET_VARIABLE == 70
ENVIRONMENT_GET_THROTTLE_STATE == BitOr(71, ENVIRONMENT_EXPERIMENTAL)
ENVIRONMENT_GET_SAVESTATE_CONTEXT == BitOr(72, ENVIRONMENT_EXPERIMENTAL)

\* The last command numbered one too high.
Mut_NEGOTIATION_INTERFACE_SUPPORT == BitOr(74, ENVIRONMENT_EXPERIMENTAL)
ENVIRONMENT_GET_HW_RENDER_CONTEXT_NEGOTIATION_INTERFACE_SUPPORT == BitOr(73, ENVIRONMENT_EXPERIMENTAL)



(***************************************************************************)
(* The namespaces: the names of the source grouped by their prefix.        *)
(***************************************************************************)
DeviceTypeNames ==
  {"DEVICE_NONE", "DEVICE_JOYPAD", "DEVICE_MOUSE", "DEVICE_KEYBOARD",
     "DEVICE_LIGHTGUN", "DEVICE_ANALOG", "DEVICE_POINTER"}

JoypadButtonNames ==
  {"DEVICE_ID_JOYPAD_B", "DEVICE_ID_JOYPAD_Y", "DEVICE_ID_JOYPAD_SELECT",
     "DEVICE_ID_JOYPAD_START", "DEVICE_ID_JOYPAD_UP",
     "DEVICE_ID_JOYPAD_DOWN", "DEVICE_ID_JOYPAD_LEFT",
     "DEVICE_ID_JOYPAD_RIGHT", "DEVICE_ID_JOYPAD_A", "DEVICE_ID_JOYPAD_X",
     "DEVICE_ID_JOYPAD_L", "DEVICE_ID_JOYPAD_R", "DEVICE_ID_JOYPAD_L2",
     "DEVICE_ID_JOYPAD_R2", "DEVICE_ID_JOYPAD_L3", "DEVICE_ID_JOYPAD_R3"}

AnalogIndexNames ==
  {"DEVICE_INDEX_ANALOG_LEFT", "DEVICE_INDEX_ANALOG_RIGHT",
     "DEVICE_INDEX_ANALOG_BUTTON"}

AnalogIdNames ==
  {"DEVICE_ID_ANALOG_X", "DEVICE_ID_ANALOG_Y"}

MouseIdNames ==
  {"DEVICE_ID_MOUSE_X", "DEVICE_ID_MOUSE_Y", "DEVICE_ID_MOUSE_LEFT",
     "DEVICE_ID_MOUSE_RIGHT", "DEVICE_ID_MOUSE_WHEELUP",
     "DEVICE_ID_MOUSE_WHEELDOWN", "DEVICE_ID_MOUSE_MIDDLE",
     "DEVICE_ID_MOUSE_HORIZ_WHEELUP", "DEVICE_ID_MOUSE_HORIZ_WHEELDOWN",
     "DEVICE_ID_MOUSE_BUTTON_4", "DEVICE_ID_MOUSE_BUTTON_5"}

LightgunIdNames ==
  {"DEVICE_ID_LIGHTGUN_SCREEN_X", "DEVICE_ID_LIGHTGUN_SCREEN_Y",
     "DEVICE_ID_LIGHTGUN_IS_OFFSCREEN", "DEVICE_ID_LIGHTGUN_TRIGGER",
     "DEVICE_ID_LIGHTGUN_RELOAD", "DEVICE_ID_LIGHTGUN_AUX_A",
     "DEVICE_ID_LIGHTGUN_AUX_B", "DEVICE_ID_LIGHTGUN_START",
     "DEVICE_ID_LIGHTGUN_SELECT", "DEVICE_ID_LIGHTGUN_AUX_C",
     "DEVICE_ID_LIGHTGUN_DPAD_UP", "DEVICE_ID_LIGHTGUN_DPAD_DOWN",
     "DEVICE_ID_LIGHTGUN_DPAD_LEFT", "DEVICE_ID_LIGHTGUN_DPAD_RIGHT"}

LightgunDeprecatedNames ==
  {"DEVICE_ID_LIGHTGUN_X", "DEVICE_ID_LIGHTGUN_Y",
     "DEVICE_ID_LIGHTGUN_CURSOR", "DEVICE_ID_LIGHTGUN_TURBO",
     "DEVICE_ID_LIGHTGUN_PAUSE"}

PointerIdNames ==
  {"DEVICE_ID_POINTER_X", "DEVICE_ID_POINTER_Y",
     "DEVICE_ID_POINTER_PRESSED", "DEVICE_ID_POINTER_COUNT"}

RegionNames ==
  {"REGION_NTSC", "REGION_PAL"}

MemoryTagNames ==
  {"MEMORY_SAVE_RAM", "MEMORY_RTC", "MEMORY_SYSTEM_RAM", "MEMORY_VIDEO_RAM"}

EnvFlagNames ==
  {"ENVIRONMENT_EXPERIMENTAL", "ENVIRONMENT_PRIVATE"}

EnvCommandNames ==
  {"ENVIRONMENT_SET_ROTATION", "ENVIRONMENT_GET_OVERSCAN",
     "ENVIRONMENT_GET_CAN_DUPE", "ENVIRONMENT_SET_MESSAGE",
     "ENVIRONMENT_SHUTDOWN", "ENVIRONMENT_SET_PERFORMANCE_LEVEL",
     "ENVIRONMENT_GET_SYSTEM_DIRECTORY", "ENVIRONMENT_SET_PIXEL_FORMAT",
     "ENVIRONMENT_SET_INPUT_DESCRIPTORS",
     "ENVIRONMENT_SET_KEYBOARD_CALLBACK",
     "ENVIRONMENT_SET_DISK_CONTROL_INTERFACE", "ENVIRONMENT_SET_HW_RENDER",
     "ENVIRONMENT_GET_VARIABLE", "ENVIRONMENT_SET_VARIABLES",
     "ENVIRONMENT_GET_VARIABLE_UPDATE", "ENVIRONMENT_SET_SUPPORT_NO_GAME",
     "ENVIRONMENT_GET_LIBRETRO_PATH", "ENVIRONMENT_SET_FRAME_TIME_CALLBACK",
     "ENVIRONMENT_SET_AUDIO_CALLBACK", "ENVIRONMENT_GET_RUMBLE_INTERFACE",
     "ENVIRONMENT_GET_INPUT_DEVICE_CAPABILITIES",
     "ENVIRONMENT_GET_SENSOR_INTERFACE", "ENVIRONMENT_GET_CAMERA_INTERFACE",
     "ENVIRONMENT_GET_LOG_INTERFACE", "ENVIRONMENT_GET_PERF_INTERFACE",
     "ENVIRONMENT_GET_LOCATION_INTERFACE",
     "ENVIRONMENT_GET_CONTENT_DIRECTORY", "ENVIRONMENT_GET_SAVE_DIRECTORY",
     "ENVIRONMENT_SET_SYSTEM_AV_INFO",
     "ENVIRONMENT_SET_PROC_ADDRESS_CALLBACK",
     "ENVIRONMENT_SET_SUBSYSTEM_INFO", "ENVIRONMENT_SET_CONTROLLER_INFO",
     "ENVIRONMENT_SET_MEMORY_MAPS", "ENVIRONMENT_SET_GEOMETRY",
     "ENVIRONMENT_GET_USERNAME", "ENVIRONMENT_GET_LANGUAGE",
     "ENVIRONMENT_GET_CURRENT_SOFTWARE_FRAMEBUFFER",
     "ENVIRONMENT_GET_HW_RENDER_INTERFACE",
     "ENVIRONMENT_SET_SUPPORT_ACHIEVEMENTS",
     "ENVIRONMENT_SET_HW_RENDER_CONTEXT_NEGOTIATION_INTERFACE",
     "ENVIRONMENT_SET_SERIALIZATION_QUIRKS",
     "ENVIRONMENT_SET_HW_SHARED_CONTEXT", "ENVIRONMENT_GET_VFS_INTERFACE",
     "ENVIRONMENT_GET_LED_INTERFACE", "ENVIRONMENT_GET_AUDIO_VIDEO_ENABLE",
     "ENVIRONMENT_GET_MIDI_INTERFACE", "ENVIRONMENT_GET_FASTFORWARDING",
     "ENVIRONMENT_GET_TARGET_REFRESH_RATE",
     "ENVIRONMENT_GET_INPUT_BITMASKS",
     "ENVIRONMENT_GET_CORE_OPTIONS_VERSION", "ENVIRONMENT_SET_CORE_OPTIONS",
     "ENVIRONMENT_SET_CORE_OPTIONS_INTL",
     "ENVIRONMENT_SET_CORE_OPTIONS_DISPLAY",
     "ENVIRONMENT_GET_PREFERRED_HW_RENDER",
     "ENVIRONMENT_GET_DISK_CONTROL_INTERFACE_VERSION",
     "ENVIRONMENT_SET_DISK_CONTROL_EXT_INTERFACE",
     "ENVIRONMENT_GET_MESSAGE_INTERFACE_VERSION",
     "ENVIRONMENT_SET_MESSAGE_EXT", "ENVIRONMENT_GET_INPUT_MAX_USERS",
     "ENVIRONMENT_SET_AUDIO_BUFFER_STATUS_CALLBACK",
     "ENVIRONMENT_SET_MINIMUM_AUDIO_LATENCY",
     "ENVIRONMENT_SET_FASTFORWARDING_OVERRIDE",
     "ENVIRONMENT_SET_CONTENT_INFO_OVERRIDE",
     "ENVIRONMENT_GET_GAME_INFO_EXT", "ENVIRONMENT_SET_CORE_OPTIONS_V2",
     "ENVIRONMENT_SET_CORE_OPTIONS_V2_INTL",
     "ENVIRONMENT_SET_CORE_OPTIONS_UPDATE_DISPLAY_CALLBACK",
     "ENVIRONMENT_SET_VARIABLE", "ENVIRONMENT_GET_THROTTLE_STATE",
     "ENVIRONMENT_GET_SAVESTATE_CONTEXT",
     "ENVIRONMENT_GET_HW_RENDER_CONTEXT_NEGOTIATION_INTERFACE_SUPPORT"}

ExperimentalCommandNames ==
  {"ENVIRONMENT_GET_SENSOR_INTERFACE", "ENVIRONMENT_GET_CAMERA_INTERFACE",
     "ENVIRONMENT_SET_MEMORY_MAPS",
     "ENVIRONMENT_GET_CURRENT_SOFTWARE_FRAMEBUFFER",
     "ENVIRONMENT_GET_HW_RENDER_INTERFACE",
     "ENVIRONMENT_SET_SUPPORT_ACHIEVEMENTS",
     "ENVIRONMENT_SET_HW_RENDER_CONTEXT_NEGOTIATION_INTERFACE",
     "ENVIRONMENT_SET_HW_SHARED_CONTEXT", "ENVIRONMENT_GET_VFS_INTERFACE",
     "ENVIRONMENT_GET_LED_INTERFACE", "ENVIRONMENT_GET_AUDIO_VIDEO_ENABLE",
     "ENVIRONMENT_GET_MIDI_INTERFACE", "ENVIRONMENT_GET_FASTFORWARDING",
     "ENVIRONMENT_GET_TARGET_REFRESH_RATE",
     "ENVIRONMENT_GET_INPUT_BITMASKS", "ENVIRONMENT_GET_THROTTLE_STATE",
     "ENVIRONMENT_GET_SAVESTATE_CONTEXT",
     "ENVIRONMENT_GET_HW_RENDER_CONTEXT_NEGOTIATION_INTERFACE_SUPPORT"}


JoypadIdNames == JoypadButtonNames \cup {"DEVICE_ID_JOYPAD_MASK"}

Names ==
  {"API_VERSION", "DEVICE_TYPE_SHIFT", "DEVICE_MASK", "MEMORY_MASK"}
    \cup DeviceTypeNames \cup JoypadIdNames \cup AnalogIndexNames
    \cup AnalogIdNames \cup MouseIdNames \cup LightgunIdNames
    \cup LightgunDeprecatedNames \cup PointerIdNames \cup RegionNames
    \cup MemoryTagNames \cup EnvFlagNames \cup EnvCommandNames

\* The catalog: every published name with the value the source binds to it.
Catalog ==
  "API_VERSION" :> API_VERSION @@
  "DEVICE_TYPE_SHIFT" :> DEVICE_TYPE_SHIFT @@
  "DEVICE_MASK" :> DEVICE_MASK @@
  "DEVICE_NONE" :> DEVICE_NONE @@
  "DEVICE_JOYPAD" :> DEVICE_JOYPAD @@
  "DEVICE_MOUSE" :> DEVICE_MOUSE @@
  "DEVICE_KEYBOARD" :> DEVICE_KEYBOARD @@
  "DEVICE_LIGHTGUN" :> DEVICE_LIGHTGUN @@
  "DEVICE_ANALOG" :> DEVICE_ANALOG @@
  "DEVICE_POINTER" :> DEVICE_POINTER @@
  "DEVICE_ID_JOYPAD_B" :> DEVICE_ID_JOYPAD_B @@
  "DEVICE_ID_JOYPAD_Y" :> DEVICE_ID_JOYPAD_Y @@
  "DEVICE_ID_JOYPAD_SELECT" :> DEVICE_ID_JOYPAD_SELECT @@
  "DEVICE_ID_JOYPAD_START" :> DEVICE_ID_JOYPAD_START @@
  "DEVICE_ID_JOYPAD_UP" :> DEVICE_ID_JOYPAD_UP @@
  "DEVICE_ID_JOYPAD_DOWN" :> DEVICE_ID_JOYPAD_DOWN @@
  "DEVICE_ID_JOYPAD_LEFT" :> DEVICE_ID_JOYPAD_LEFT @@
  "DEVICE_ID_JOYPAD_RIGHT" :> DEVICE_ID_JOYPAD_RIGHT @@
  "DEVICE_ID_JOYPAD_A" :> DEVICE_ID_JOYPAD_A @@
  "DEVICE_ID_JOYPAD_X" :> DEVICE_ID_JOYPAD_X @@
  "DEVICE_ID_JOYPAD_L" :> DEVICE_ID_JOYPAD_L @@
  "DEVICE_ID_JOYPAD_R" :> DEVICE_ID_JOYPAD_R @@
  "DEVICE_ID_JOYPAD_L2" :> DEVICE_ID_JOYPAD_L2 @@
  "DEVICE_ID_JOYPAD_R2" :> DEVICE_ID_JOYPAD_R2 @@
  "DEVICE_ID_JOYPAD_L3" :> DEVICE_ID_JOYPAD_L3 @@
  "DEVICE_ID_JOYPAD_R3" :> DEVICE_ID_JOYPAD_R3 @@
  "DEVICE_ID_JOYPAD_MASK" :> DEVICE_ID_JOYPAD_MASK @@
  "DEVICE_INDEX_ANALOG_LEFT" :> DEVICE_INDEX_ANALOG_LEFT @@
  "DEVICE_INDEX_ANALOG_RIGHT" :> DEVICE_INDEX_ANALOG_RIGHT @@
  "DEVICE_INDEX_ANALOG_BUTTON" :> DEVICE_INDEX_ANALOG_BUTTON @@
  "DEVICE_ID_ANALOG_X" :> DEVICE_ID_ANALOG_X @@
  "DEVICE_ID_ANALOG_Y" :> DEVICE_ID_ANALOG_Y @@
  "DEVICE_ID_MOUSE_X" :> DEVICE_ID_MOUSE_X @@
  "DEVICE_ID_MOUSE_Y" :> DEVICE_ID_MOUSE_Y @@
  "DEVICE_ID_MOUSE_LEFT" :> DEVICE_ID_MOUSE_LEFT @@
  "DEVICE_ID_MOUSE_RIGHT" :> DEVICE_ID_MOUSE_RIGHT @@
  "DEVICE_ID_MOUSE_WHEELUP" :> DEVICE_ID_MOUSE_WHEELUP @@
  "DEVICE_ID_MOUSE_WHEELDOWN" :> DEVICE_ID_MOUSE_WHEELDOWN @@
  "DEVICE_ID_MOUSE_MIDDLE" :> DEVICE_ID_MOUSE_MIDDLE @@
  "DEVICE_ID_MOUSE_HORIZ_WHEELUP" :> DEVICE_ID_MOUSE_HORIZ_WHEELUP @@
  "DEVICE_ID_MOUSE_HORIZ_WHEELDOWN" :> DEVICE_ID_MOUSE_HORIZ_WHEELDOWN @@
  "DEVICE_ID_MOUSE_BUTTON_4" :> DEVICE_ID_MOUSE_BUTTON_4 @@
  "DEVICE_ID_MOUSE_BUTTON_5" :> DEVICE_ID_MOUSE_BUTTON_5 @@
  "DEVICE_ID_LIGHTGUN_SCREEN_X" :> DEVICE_ID_LIGHTGUN_SCREEN_X @@
  "DEVICE_ID_LIGHTGUN_SCREEN_Y" :> DEVICE_ID_LIGHTGUN_SCREEN_Y @@
  "DEVICE_ID_LIGHTGUN_IS_OFFSCREEN" :> DEVICE_ID_LIGHTGUN_IS_OFFSCREEN @@
  "DEVICE_ID_LIGHTGUN_TRIGGER" :> DEVICE_ID_LIGHTGUN_TRIGGER @@
  "DEVICE_ID_LIGHTGUN_RELOAD" :> DEVICE_ID_LIGHTGUN_RELOAD @@
  "DEVICE_ID_LIGHTGUN_AUX_A" :> DEVICE_ID_LIGHTGUN_AUX_A @@
  "DEVICE_ID_LIGHTGUN_AUX_B" :> DEVICE_ID_LIGHTGUN_AUX_B @@
  "DEVICE_ID_LIGHTGUN_START" :> DEVICE_ID_LIGHTGUN_START @@
  "DEVICE_ID_LIGHTGUN_SELECT" :> DEVICE_ID_LIGHTGUN_SELECT @@
  "DEVICE_ID_LIGHTGUN_AUX_C" :> DEVICE_ID_LIGHTGUN_AUX_C @@
  "DEVICE_ID_LIGHTGUN_DPAD_UP" :> DEVICE_ID_LIGHTGUN_DPAD_UP @@
  "DEVICE_ID_LIGHTGUN_DPAD_DOWN" :> DEVICE_ID_LIGHTGUN_DPAD_DOWN @@
  "DEVICE_ID_LIGHTGUN_DPAD_LEFT" :> DEVICE_ID_LIGHTGUN_DPAD_LEFT @@
  "DEVICE_ID_LIGHTGUN_DPAD_RIGHT" :> DEVICE_ID_LIGHTGUN_DPAD_RIGHT @@
  "DEVICE_ID_LIGHTGUN_X" :> DEVICE_ID_LIGHTGUN_X @@
  "DEVICE_ID_LIGHTGUN_Y" :> DEVICE_ID_LIGHTGUN_Y @@
  "DEVICE_ID_LIGHTGUN_CURSOR" :> DEVICE_ID_LIGHTGUN_CURSOR @@
  "DEVICE_ID_LIGHTGUN_TURBO" :> DEVICE_ID_LIGHTGUN_TURBO @@
  "DEVICE_ID_LIGHTGUN_PAUSE" :> DEVICE_ID_LIGHTGUN_PAUSE @@
  "DEVICE_ID_POINTER_X" :> DEVICE_ID_POINTER_X @@
  "DEVICE_ID_POINTER_Y" :> DEVICE_ID_POINTER_Y @@
  "DEVICE_ID_POINTER_PRESSED" :> DEVICE_ID_POINTER_PRESSED @@
  "DEVICE_ID_POINTER_COUNT" :> DEVICE_ID_POINTER_COUNT @@
  "REGION_NTSC" :> REGION_NTSC @@
  "REGION_PAL" :> REGION_PAL @@
  "MEMORY_MASK" :> MEMORY_MASK @@
  "MEMORY_SAVE_RAM" :> MEMORY_SAVE_RAM @@
  "MEMORY_RTC" :> MEMORY_RTC @@
  "MEMORY_SYSTEM_RAM" :> MEMORY_SYSTEM_RAM @@
  "MEMORY_VIDEO_RAM" :> MEMORY_VIDEO_RAM @@
  "ENVIRONMENT_EXPERIMENTAL" :> ENVIRONMENT_EXPERIMENTAL @@
  "ENVIRONMENT_PRIVATE" :> ENVIRONMENT_PRIVATE @@
  "ENVIRONMENT_SET_ROTATION" :> ENVIRONMENT_SET_ROTATION @@
  "ENVIRONMENT_GET_OVERSCAN" :> ENVIRONMENT_GET_OVERSCAN @@
  "ENVIRONMENT_GET_CAN_DUPE" :> ENVIRONMENT_GET_CAN_DUPE @@
  "ENVIRONMENT_SET_MESSAGE" :> ENVIRONMENT_SET_MESSAGE @@
  "ENVIRONMENT_SHUTDOWN" :> ENVIRONMENT_SHUTDOWN @@
  "ENVIRONMENT_SET_PERFORMANCE_LEVEL" :> ENVIRONMENT_SET_PERFORMANCE_LEVEL @@
  "ENVIRONMENT_GET_SYSTEM_DIRECTORY" :> ENVIRONMENT_GET_SYSTEM_DIRECTORY @@
  "ENVIRONMENT_SET_PIXEL_FORMAT" :> ENVIRONMENT_SET_PIXEL_FORMAT @@
  "ENVIRONMENT_SET_INPUT_DESCRIPTORS" :> ENVIRONMENT_SET_INPUT_DESCRIPTORS @@
  "ENVIRONMENT_SET_KEYBOARD_CALLBACK" :> ENVIRONMENT_SET_KEYBOARD_CALLBACK @@
  "ENVIRONMENT_SET_DISK_CONTROL_INTERFACE" :> ENVIRONMENT_SET_DISK_CONTROL_INTERFACE @@
  "ENVIRONMENT_SET_HW_RENDER" :> ENVIRONMENT_SET_HW_RENDER @@
  "ENVIRONMENT_GET_VARIABLE" :> ENVIRONMENT_GET_VARIABLE @@
  "ENVIRONMENT_SET_VARIABLES" :> ENVIRONMENT_SET_VARIABLES @@
  "ENVIRONMENT_GET_VARIABLE_UPDATE" :> ENVIRONMENT_GET_VARIABLE_UPDATE @@
  "ENVIRONMENT_SET_SUPPORT_NO_GAME" :> ENVIRONMENT_SET_SUPPORT_NO_GAME @@
  "ENVIRONMENT_GET_LIBRETRO_PATH" :> ENVIRONMENT_GET_LIBRETRO_PATH @@
  "ENVIRONMENT_SET_FRAME_TIME_CALLBACK" :> ENVIRONMENT_SET_FRAME_TIME_CALLBACK @@
  "ENVIRONMENT_SET_AUDIO_CALLBACK" :> ENVIRONMENT_SET_AUDIO_CALLBACK @@
  "ENVIRONMENT_GET_RUMBLE_INTERFACE" :> ENVIRONMENT_GET_RUMBLE_INTERFACE @@
  "ENVIRONMENT_GET_INPUT_DEVICE_CAPABILITIES" :> ENVIRONMENT_GET_INPUT_DEVICE_CAPABILITIES @@
  "ENVIRONMENT_GET_SENSOR_INTERFACE" :> ENVIRONMENT_GET_SENSOR_INTERFACE @@
  "ENVIRONMENT_GET_CAMERA_INTERFACE" :> ENVIRONMENT_GET_CAMERA_INTERFACE @@
  "ENVIRONMENT_GET_LOG_INTERFACE" :> ENVIRONMENT_GET_LOG_INTERFACE @@
  "ENVIRONMENT_GET_PERF_INTERFACE" :> ENVIRONMENT_GET_PERF_INTERFACE @@
  "ENVIRONMENT_GET_LOCATION_INTERFACE" :> ENVIRONMENT_GET_LOCATION_INTERFACE @@
  "ENVIRONMENT_GET_CONTENT_DIRECTORY" :> ENVIRONMENT_GET_CONTENT_DIRECTORY @@
  "ENVIRONMENT_GET_SAVE_DIRECTORY" :> ENVIRONMENT_GET_SAVE_DIRECTORY @@
  "ENVIRONMENT_SET_SYSTEM_AV_INFO" :> ENVIRONMENT_SET_SYSTEM_AV_INFO @@
  "ENVIRONMENT_SET_PROC_ADDRESS_CALLBACK" :> ENVIRONMENT_SET_PROC_ADDRESS_CALLBACK @@
  "ENVIRONMENT_SET_SUBSYSTEM_INFO" :> ENVIRONMENT_SET_SUBSYSTEM_INFO @@
  "ENVIRONMENT_SET_CONTROLLER_INFO" :> ENVIRONMENT_SET_CONTROLLER_INFO @@
  "ENVIRONMENT_SET_MEMORY_MAPS" :> ENVIRONMENT_SET_MEMORY_MAPS @@
  "ENVIRONMENT_SET_GEOMETRY" :> ENVIRONMENT_SET_GEOMETRY @@
  "ENVIRONMENT_GET_USERNAME" :> ENVIRONMENT_GET_USERNAME @@
  "ENVIRONMENT_GET_LANGUAGE" :> ENVIRONMENT_GET_LANGUAGE @@
  "ENVIRONMENT_GET_CURRENT_SOFTWARE_FRAMEBUFFER" :> ENVIRONMENT_GET_CURRENT_SOFTWARE_FRAMEBUFFER @@
  "ENVIRONMENT_GET_HW_RENDER_INTERFACE" :> ENVIRONMENT_GET_HW_RENDER_INTERFACE @@
  "ENVIRONMENT_SET_SUPPORT_ACHIEVEMENTS" :> ENVIRONMENT_SET_SUPPORT_ACHIEVEMENTS @@
  "ENVIRONMENT_SET_HW_RENDER_CONTEXT_NEGOTIATION_INTERFACE" :> ENVIRONMENT_SET_HW_RENDER_CONTEXT_NEGOTIATION_INTERFACE @@
  "ENVIRONMENT_SET_SERIALIZATION_QUIRKS" :> ENVIRONMENT_SET_SERIALIZATION_QUIRKS @@
  "ENVIRONMENT_SET_HW_SHARED_CONTEXT" :> ENVIRONMENT_SET_HW_SHARED_CONTEXT @@
  "ENVIRONMENT_GET_VFS_INTERFACE" :> ENVIRONMENT_GET_VFS_INTERFACE @@
  "ENVIRONMENT_GET_LED_INTERFACE" :> ENVIRONMENT_GET_LED_INTERFACE @@
  "ENVIRONMENT_GET_AUDIO_VIDEO_ENABLE" :> ENVIRONMENT_GET_AUDIO_VIDEO_ENABLE @@
  "ENVIRONMENT_GET_MIDI_INTERFACE" :> ENVIRONMENT_GET_MIDI_INTERFACE @@
  "ENVIRONMENT_GET_FASTFORWARDING" :> ENVIRONMENT_GET_FASTFORWARDING @@
  "ENVIRONMENT_GET_TARGET_REFRESH_RATE" :> ENVIRONMENT_GET_TARGET_REFRESH_RATE @@
  "ENVIRONMENT_GET_INPUT_BITMASKS" :> ENVIRONMENT_GET_INPUT_BITMASKS @@
  "ENVIRONMENT_GET_CORE_OPTIONS_VERSION" :> ENVIRONMENT_GET_CORE_OPTIONS_VERSION @@
  "ENVIRONMENT_SET_CORE_OPTIONS" :> ENVIRONMENT_SET_CORE_OPTIONS @@
  "ENVIRONMENT_SET_CORE_OPTIONS_INTL" :> ENVIRONMENT_SET_CORE_OPTIONS_INTL @@
  "ENVIRONMENT_SET_CORE_OPTIONS_DISPLAY" :> ENVIRONMENT_SET_CORE_OPTIONS_DISPLAY @@
  "ENVIRONMENT_GET_PREFERRED_HW_RENDER" :> ENVIRONMENT_GET_PREFERRED_HW_RENDER @@
  "ENVIRONMENT_GET_DISK_CONTROL_INTERFACE_VERSION" :> ENVIRONMENT_GET_DISK_CONTROL_INTERFACE_VERSION @@
  "ENVIRONMENT_SET_DISK_CONTROL_EXT_INTERFACE" :> ENVIRONMENT_SET_DISK_CONTROL_EXT_INTERFACE @@
  "ENVIRONMENT_GET_MESSAGE_INTERFACE_VERSION" :> ENVIRONMENT_GET_MESSAGE_INTERFACE_VERSION @@
  "ENVIRONMENT_SET_MESSAGE_EXT" :> ENVIRONMENT_SET_MESSAGE_EXT @@
  "ENVIRONMENT_GET_INPUT_MAX_USERS" :> ENVIRONMENT_GET_INPUT_MAX_USERS @@
  "ENVIRONMENT_SET_AUDIO_BUFFER_STATUS_CALLBACK" :> ENVIRONMENT_SET_AUDIO_BUFFER_STATUS_CALLBACK @@
  "ENVIRONMENT_SET_MINIMUM_AUDIO_LATENCY" :> ENVIRONMENT_SET_MINIMUM_AUDIO_LATENCY @@
  "ENVIRONMENT_SET_FASTFORWARDING_OVERRIDE" :> ENVIRONMENT_SET_FASTFORWARDING_OVERRIDE @@
  "ENVIRONMENT_SET_CONTENT_INFO_OVERRIDE" :> ENVIRONMENT_SET_CONTENT_INFO_OVERRIDE @@
  "ENVIRONMENT_GET_GAME_INFO_EXT" :> ENVIRONMENT_GET_GAME_INFO_EXT @@
  "ENVIRONMENT_SET_CORE_OPTIONS_V2" :> ENVIRONMENT_SET_CORE_OPTIONS_V2 @@
  "ENVIRONMENT_SET_CORE_OPTIONS_V2_INTL" :> ENVIRONMENT_SET_CORE_OPTIONS_V2_INTL @@
  "ENVIRONMENT_SET_CORE_OPTIONS_UPDATE_DISPLAY_CALLBACK" :> ENVIRONMENT_SET_CORE_OPTIONS_UPDATE_DISPLAY_CALLBACK @@
  "ENVIRONMENT_SET_VARIABLE" :> ENVIRONMENT_SET_VARIABLE @@
  "ENVIRONMENT_GET_THROTTLE_STATE" :> ENVIRONMENT_GET_THROTTLE_STATE @@
  "ENVIRONMENT_GET_SAVESTATE_CONTEXT" :> ENVIRONMENT_GET_SAVESTATE_CONTEXT @@
  "ENVIRONMENT_GET_HW_RENDER_CONTEXT_NEGOTIATION_INTERFACE_SUPPORT" :> ENVIRONMENT_GET_HW_RENDER_CONTEXT_NEGOTIATION_INTERFACE_SUPPORT

(***************************************************************************)
(* State.  A `pub const` has no storage of its own: each use is replaced   *)
(* by the value, so the table above is constant and the state is one       *)
(* consumer's current evaluation.                                          *)
(***************************************************************************)
VARIABLES
  pc,       \* the consumer's position
  look,     \* the last lookup: [name, value]
  dev,      \* a device + subclass composition: [d, s, v, outd, outs]
  mem,      \* a masked memory id: [name, out]
  env,      \* a flagged environment command: [name, c, f, v, base, flags]
  inp,      \* an input query: [index, id, held, devs, out]
  table,    \* the bindings as concurrent readers share them: name -> value
  rd        \* per reader: [pc, name, value]

vars == <<pc, look, dev, mem, env, inp, table, rd>>

\* Number of concurrent readers.
NumReaders == 2

Readers == 1..NumReaders

\* The names the concurrent readers look up: the device types, regions,
\* memory tags and flags, the shift and the masks, the API version, and
\* every command defined as n | ENVIRONMENT_EXPERIMENTAL.
ReaderNames ==
  {"API_VERSION", "DEVICE_TYPE_SHIFT", "DEVICE_MASK", "MEMORY_MASK"}
    \cup DeviceTypeNames \cup RegionNames \cup MemoryTagNames
    \cup EnvFlagNames \cup ExperimentalCommandNames

NoRead == [pc |-> "idle", name |-> "", value |-> 0]

\* Largest subclass number enumerated one by one.
MaxSubclass == 64

\* Largest base command code enumerated one by one.
MaxCode == 80

NoLook == [name |-> "", value |-> 0]
NoDev == [d |-> {}, s |-> {}, v |-> {}, outd |-> {}, outs |-> {}]
NoInp == [index |-> "", id |-> "", held |-> {}, devs |-> {}, out |-> {}]
NoMem == [name |-> "", out |-> {}]
NoEnv == [name |-> "", c |-> {}, f |-> {}, v |-> {}, base |-> {}, flags |-> {}]

\* The subclass numbers a consumer may pass: the small ones, every single
\* bit and every run of low bits of a u32 (so also numbers of 2^24 and above).
SubclassInputs ==
  {Bits(n) : n \in 0..MaxSubclass}
    \cup {{k} : k \in 0..(W - 1)}
    \cup {0..k : k \in 0..(W - 1)}

\* The base command codes below the flag bits: 0..0xFFFF.
CodeSpaceMask == (2 ^ 16) - 1

\* The two flag positions as one mask: 0x30000.
FlagSpaceMask == (2 ^ 16) + (2 ^ 17)

\* The base codes a consumer may flag: the small ones and the values around
\* every power of two of the code space.
CodeInputs ==
  (0..MaxCode)
    \cup {2 ^ k : k \in 0..15}
    \cup {(2 ^ k) - 1 : k \in 0..16}

\* The bits of a set of flag names.
FlagBits(F) == UNION {Bits(Catalog[f]) : f \in F}

Init ==
  /\ pc = "idle"
  /\ look = NoLook
  /\ dev = NoDev
  /\ mem = NoMem
  /\ env = NoEnv
  /\ inp = NoInp
  /\ table = [n \in ReaderNames |-> Catalog[n]]
  /\ rd = [r \in Readers |-> NoRead]

\* A consumer reads the constant n.
Lookup(n) ==
  /\ pc = "idle"
  /\ look' = [name |-> n, value |-> Catalog[n]]
  /\ pc' = "looked"
  /\ UNCHANGED <<dev, mem, env, inp, table, rd>>

\* (s << DEVICE_TYPE_SHIFT) | d for the device type named t.
DeviceCompose(t, s) ==
  /\ pc = "idle"
  /\ dev' = [d |-> Bits(Catalog[t]),
             s |-> s,
             v |-> OrB(ShlB(s, Catalog["DEVICE_TYPE_SHIFT"]), Bits(Catalog[t])),
             outd |-> {},
             outs |-> {}]
  /\ pc' = "composed"
  /\ UNCHANGED <<look, mem, env, inp, table, rd>>

\* v & DEVICE_MASK and v >> DEVICE_TYPE_SHIFT.
DeviceDecode ==
  /\ pc = "composed"
  /\ dev' = [dev EXCEPT
               !.outd = AndB(dev.v, Bits(Catalog["DEVICE_MASK"])),
               !.outs = ShrB(dev.v, Catalog["DEVICE_TYPE_SHIFT"])]
  /\ pc' = "decoded"
  /\ UNCHANGED <<look, mem, env, inp, table, rd>>

\* Largest number masked with DEVICE_MASK that is enumerated one by one.
MaxMaskInput == 600

\* The u32 values a consumer may mask: the small ones, every single bit,
\* every run of low bits and every run of high bits.
MaskInputs ==
  {Bits(n) : n \in 0..MaxMaskInput}
    \cup {{k} : k \in 0..(W - 1)}
    \cup {0..k : k \in 0..(W - 1)}
    \cup {k..(W - 1) : k \in 0..(W - 1)}

\* x & DEVICE_MASK for any u32 x.
DeviceMask(x) ==
  /\ pc = "idle"
  /\ dev' = [NoDev EXCEPT
               !.v = x,
               !.outd = AndB(x, Bits(Catalog["DEVICE_MASK"]))]
  /\ pc' = "devmasked"
  /\ UNCHANGED <<look, mem, env, inp, table, rd>>

\* The sets of buttons held down at once: none, each one, each two, all.
HeldInputs ==
  {{}} \cup {{a, b} : a, b \in JoypadButtonNames} \cup {JoypadButtonNames}

\* The frontend answers a joypad query for the id named i while the buttons
\* P are held: the bitmask of all digital buttons (bit 1 << id for each held
\* one) when the id is DEVICE_ID_JOYPAD_MASK, else the state of that button.
JoypadState(i, P) ==
  /\ pc = "idle"
  /\ inp' = [NoInp EXCEPT
               !.id = i,
               !.held = P,
               !.out = IF Catalog[i] = Catalog["DEVICE_ID_JOYPAD_MASK"]
                         THEN UNION {ShlB({0}, Catalog[b]) : b \in P}
                         ELSE IF \E b \in P : Catalog[b] = Catalog[i]
                                THEN {0}
                                ELSE {}]
  /\ pc' = "padstate"
  /\ UNCHANGED <<look, dev, mem, env, table, rd>>

\* Width of the input-device capability mask (uint64_t).
CapsWidth == 64

\* 1 << d in the capability mask's type; a shift by the width or more
\* leaves no bit.
CapsBit(d) == IF d < CapsWidth THEN {d} ELSE {}

\* The frontend builds the capability mask of the device types D it
\* handles: the OR of 1 << d.
DeviceCaps(D) ==
  /\ pc = "idle"
  /\ inp' = [NoInp EXCEPT
               !.devs = D,
               !.out = UNION {CapsBit(Catalog[d]) : d \in D}]
  /\ pc' = "caps"
  /\ UNCHANGED <<look, dev, mem, env, table, rd>>

\* The ids that go with the analog index named a: the two axes for a stick,
\* the joypad button ids for DEVICE_INDEX_ANALOG_BUTTON.
AnalogIdsOf(a) ==
  IF a = "DEVICE_INDEX_ANALOG_BUTTON" THEN JoypadButtonNames ELSE AnalogIdNames

\* The analog controls: an index with one of its ids.
AnalogControls ==
  {c \in AnalogIndexNames \X (AnalogIdNames \cup JoypadButtonNames) :
     c[2] \in AnalogIdsOf(c[1])}

\* The frontend answers an analog query for the control c = (index, id): it
\* gets the two numbers and finds every control they name.
AnalogState(c) ==
  /\ pc = "idle"
  /\ inp' = [NoInp EXCEPT
               !.index = c[1],
               !.id = c[2],
               !.out = {k \in AnalogControls :
                          /\ Catalog[k[1]] = Catalog[c[1]]
                          /\ Catalog[k[2]] = Catalog[c[2]]}]
  /\ pc' = "analog"
  /\ UNCHANGED <<look, dev, mem, env, table, rd>>

\* t & MEMORY_MASK for the memory tag named t.
MemoryMask(t) ==
  /\ pc = "idle"
  /\ mem' = [name |-> t,
             out |-> AndB(Bits(Catalog[t]), Bits(Catalog["MEMORY_MASK"]))]
  /\ pc' = "masked"
  /\ UNCHANGED <<look, dev, env, inp, table, rd>>

\* c | f for the command named n and the flag named f.
EnvSetFlag(n, f) ==
  /\ pc = "idle"
  /\ env' = [NoEnv EXCEPT
               !.name = n,
               !.c = Bits(Catalog[n]),
               !.f = Bits(Catalog[f]),
               !.v = OrB(Bits(Catalog[n]), Bits(Catalog[f]))]
  /\ pc' = "flagged"
  /\ UNCHANGED <<look, dev, mem, inp, table, rd>>

\* (c | f) & !f.
EnvClearFlag ==
  /\ pc = "flagged"
  /\ env' = [env EXCEPT !.base = AndB(env.v, NotB(env.f))]
  /\ pc' = "cleared"
  /\ UNCHANGED <<look, dev, mem, inp, table, rd>>

\* n | F for a base code n and a set F of flag names.
EnvEncode(n, F) ==
  /\ pc = "idle"
  /\ env' = [NoEnv EXCEPT
               !.c = Bits(n),
               !.f = FlagBits(F),
               !.v = OrB(Bits(n), FlagBits(F))]
  /\ pc' = "encoded"
  /\ UNCHANGED <<look, dev, mem, inp, table, rd>>

\* (n | F) & !F for the base code and the flags just encoded.
EnvStrip ==
  /\ pc = "encoded"
  /\ env' = [env EXCEPT !.base = AndB(env.v, NotB(env.f))]
  /\ pc' = "stripped"
  /\ UNCHANGED <<look, dev, mem, inp, table, rd>>

\* v & 0xFFFF and v & 0x30000.
EnvSplit ==
  /\ pc = "encoded"
  /\ env' = [env EXCEPT
               !.base = AndB(env.v, Bits(CodeSpaceMask)),
               !.flags = AndB(env.v, Bits(FlagSpaceMask))]
  /\ pc' = "split"
  /\ UNCHANGED <<look, dev, mem, inp, table, rd>>

\* The consumer drops its result and starts over.
Finish ==
  /\ pc # "idle"
  /\ pc' = "idle"
  /\ look' = NoLook
  /\ dev' = NoDev
  /\ mem' = NoMem
  /\ env' = NoEnv
  /\ inp' = NoInp
  /\ UNCHANGED <<table, rd>>

Next ==
  \/ \E n \in Names : Lookup(n)
  \/ \E t \in DeviceTypeNames : \E s \in SubclassInputs : DeviceCompose(t, s)
  \/ DeviceDecode
  \/ \E x \in MaskInputs : DeviceMask(x)
  \/ \E i \in JoypadIdNames : \E P \in HeldInputs : JoypadState(i, P)
  \/ \E D \in SUBSET DeviceTypeNames : DeviceCaps(D)
  \/ \E c \in AnalogControls : AnalogState(c)
  \/ \E t \in MemoryTagNames : MemoryMask(t)
  \/ \E n \in EnvCommandNames : \E f \in EnvFlagNames : EnvSetFlag(n, f)
  \/ EnvClearFlag
  \/ \E n \in CodeInputs : \E F \in SUBSET EnvFlagNames : EnvEncode(n, F)
  \/ EnvStrip
  \/ EnvSplit
  \/ Finish

Spec == Init /\ [][Next]_vars

\* Reader r starts to read the constant n.
ReaderBegin(r, n) ==
  /\ rd[r].pc = "idle"
  /\ rd' = [rd EXCEPT ![r] = [pc |-> "reading", name |-> n, value |-> 0]]
  /\ UNCHANGED <<pc, look, dev, mem, env, inp, table>>

\* A read that takes the value out of the table and leaves 0 behind.
Mut_ReaderEnd(r) ==
  /\ rd[r].pc = "reading"
  /\ rd' = [rd EXCEPT ![r].pc = "done", ![r].value = table[rd[r].name]]
  /\ table' = [table EXCEPT ![rd[r].name] = 0]
  /\ UNCHANGED <<pc, look, dev, mem, env, inp>>

\* Reader r gets the value; a read writes nothing.
ReaderEnd(r) ==
  /\ rd[r].pc = "reading"
  /\ rd' = [rd EXCEPT ![r].pc = "done", ![r].value = table[rd[r].name]]
  /\ UNCHANGED <<pc, look, dev, mem, env, inp, table>>

\* Reader r drops the value it holds.
ReaderFinish(r) ==
  /\ rd[r].pc = "done"
  /\ rd' = [rd EXCEPT ![r] = NoRead]
  /\ UNCHANGED <<pc, look, dev, mem, env, inp, table>>

\* Any number of readers, their lookups interleaved in every order.
NextReaders ==
  \/ \E r \in Readers : \E n \in ReaderNames : ReaderBegin(r, n)
  \/ \E r \in Readers : ReaderEnd(r)
  \/ \E r \in Readers : ReaderFinish(r)

SpecReaders == Init /\ [][NextReaders]_vars

\* The whole code space below the flag bits, one code at a time.
NextGrowth ==
  \/ /\ pc = "idle"
     /\ \E n \in 0..CodeSpaceMask : \E F \in SUBSET EnvFlagNames : EnvEncode(n, F)
  \/ EnvSplit
  \/ Finish

SpecGrowth == Init /\ [][NextGrowth]_vars

(***************************************************************************)
(* Properties of the catalog and of its use.                               *)
(***************************************************************************)

\* A published value with the EXPERIMENTAL and PRIVATE bits cleared.
BaseCode(v) == Val(AndB(Bits(v), NotB(FlagBits(EnvFlagNames))))

\* The device type values of C2.
DeviceTypeValues ==
  "DEVICE_NONE" :> 0 @@ "DEVICE_JOYPAD" :> 1 @@ "DEVICE_MOUSE" :> 2 @@
  "DEVICE_KEYBOARD" :> 3 @@ "DEVICE_LIGHTGUN" :> 4 @@ "DEVICE_ANALOG" :> 5 @@
  "DEVICE_POINTER" :> 6 @@ "DEVICE_TYPE_SHIFT" :> 8

\* C2: the device types are NONE=0, JOYPAD=1, MOUSE=2, KEYBOARD=3,
\* LIGHTGUN=4, ANALOG=5, POINTER=6, the subclass shift is 8, and masking a
\* device type with DEVICE_MASK gives the device type back.
C2_DeviceTypes ==
  /\ (pc = "looked" /\ look.name \in DOMAIN DeviceTypeValues)
       => look.value = DeviceTypeValues[look.name]
  /\ (pc = "looked" /\ look.name \in DeviceTypeNames)
       => BitAnd(look.value, Catalog["DEVICE_MASK"]) = look.value
  /\ (pc = "decoded" /\ dev.s = {}) => dev.outd = dev.d

\* The bare device type POINTER has been masked and came back as 6.
C2_Witness ==
  /\ pc = "decoded"
  /\ dev.s = {}
  /\ dev.d = Bits(6)
  /\ dev.outd = Bits(6)

\* C3: for every device type d and every subclass s below 2^24, the value
\* v = (s << DEVICE_TYPE_SHIFT) | d decodes to d with & DEVICE_MASK and to s
\* with >> DEVICE_TYPE_SHIFT.
C3_RoundTrip ==
  (pc = "decoded" /\ dev.s \subseteq 0..23)
    => (dev.outd = dev.d /\ dev.outs = dev.s)

\* The largest subclass of the claim, 2^24 - 1, went round with POINTER.
C3_Witness ==
  /\ pc = "decoded"
  /\ dev.s = 0..23
  /\ dev.d = Bits(6)
  /\ dev.v = (8..31) \cup {1, 2}
  /\ dev.outd = dev.d
  /\ dev.outs = dev.s

\* C4 as stated: for every command constant c at its published value and
\* each of the two flags f, (c | f) & ~f = c.
C4_Original == pc = "cleared" => env.base = env.c

\* C4 as amended: (c | f) & ~f = c for every command with f = PRIVATE, and
\* with f = EXPERIMENTAL for every command whose definition does not OR in
\* ENVIRONMENT_EXPERIMENTAL; for a command defined as n | EXPERIMENTAL the
\* result of clearing EXPERIMENTAL is n, which is not c.
C4_FlagComposition ==
  pc = "cleared" =>
    /\ env.f = Bits(Catalog["ENVIRONMENT_PRIVATE"]) => env.base = env.c
    /\ (/\ env.f = Bits(Catalog["ENVIRONMENT_EXPERIMENTAL"])
        /\ env.name \notin ExperimentalCommandNames) => env.base = env.c
    /\ (/\ env.f = Bits(Catalog["ENVIRONMENT_EXPERIMENTAL"])
        /\ env.name \in ExperimentalCommandNames)
         => (env.base = env.c \ env.f /\ env.base # env.c)

\* EXPERIMENTAL was set on and cleared from GET_SENSOR_INTERFACE, leaving 25.
C4_Witness ==
  /\ pc = "cleared"
  /\ env.name = "ENVIRONMENT_GET_SENSOR_INTERFACE"
  /\ env.f = Bits(65536)
  /\ env.c = Bits(65561)
  /\ env.base = Bits(25)

\* The namespaces of C5; the deprecated lightgun names are in none of them.
Namespaces ==
  {DeviceTypeNames, JoypadIdNames, MouseIdNames, LightgunIdNames,
   PointerIdNames, AnalogIdNames, AnalogIndexNames, RegionNames,
   MemoryTagNames, EnvCommandNames}

\* C5: within each namespace no two distinct names have the same value,
\* pairs with a deprecated lightgun name (X, Y, CURSOR, TURBO, PAUSE) aside:
\* the value read under a name is the value of no other name of its
\* namespace.
C5_UniqueWithinNamespace ==
  pc = "looked" =>
    \A NS \in Namespaces :
      look.name \in NS =>
        \A b \in NS \ {look.name} : Catalog[b] # look.value

\* SET_HW_SHARED_CONTEXT, which shares code 44 with SET_SERIALIZATION_QUIRKS,
\* was read and its value is that of no other command.
C5_Witness ==
  /\ pc = "looked"
  /\ look.name = "ENVIRONMENT_SET_HW_SHARED_CONTEXT"
  /\ look.value = 65580
  /\ BaseCode(look.value) = Catalog["ENVIRONMENT_SET_SERIALIZATION_QUIRKS"]
  /\ \A b \in EnvCommandNames \ {look.name} : Catalog[b] # look.value

\* C6: DEVICE_JOYPAD | (DEVICE_INDEX_ANALOG_LEFT << DEVICE_TYPE_SHIFT)
\* decodes to device 1 and subclass 0, and ENVIRONMENT_GET_SENSOR_INTERFACE
\* is 25 | 0x10000 = 65561.
C6_Scenario ==
  /\ (/\ pc = "decoded"
      /\ dev.d = Bits(Catalog["DEVICE_JOYPAD"])
      /\ dev.s = Bits(Catalog["DEVICE_INDEX_ANALOG_LEFT"]))
       => (dev.outd = Bits(1) /\ dev.outs = Bits(0))
  /\ (pc = "looked" /\ look.name = "ENVIRONMENT_GET_SENSOR_INTERFACE")
       => (look.value = BitOr(25, 65536) /\ look.value = 65561)

\* The scenario's value has been composed and decoded.
C6_Witness ==
  /\ pc = "decoded"
  /\ dev.d = Bits(Catalog["DEVICE_JOYPAD"])
  /\ dev.s = Bits(Catalog["DEVICE_INDEX_ANALOG_LEFT"])
  /\ dev.v = {0}
  /\ dev.outd = {0}
  /\ dev.outs = {}

\* C7: every command's base code is in 1..73, SET_ROTATION has the smallest
\* (1) and GET_HW_RENDER_CONTEXT_NEGOTIATION_INTERFACE_SUPPORT the largest
\* (73), and the published value is the base code OR'd with a subset of
\* {0x10000, 0x20000}.
C7_CommandRange ==
  (pc = "looked" /\ look.name \in EnvCommandNames) =>
    /\ BaseCode(look.value) \in 1..73
    /\ \E m \in {0, 65536, 131072, 196608} :
         look.value = BitOr(BaseCode(look.value), m)
    /\ look.name = "ENVIRONMENT_SET_ROTATION" => BaseCode(look.value) = 1
    /\ look.name =
         "ENVIRONMENT_GET_HW_RENDER_CONTEXT_NEGOTIATION_INTERFACE_SUPPORT"
         => BaseCode(look.value) = 73

\* The command with the largest code was read: 73 with EXPERIMENTAL.
C7_Witness ==
  /\ pc = "looked"
  /\ look.name =
       "ENVIRONMENT_GET_HW_RENDER_CONTEXT_NEGOTIATION_INTERFACE_SUPPORT"
  /\ look.value = 65609
  /\ BaseCode(look.value) = 73

\* C8: EXPERIMENTAL is 0x10000 and PRIVATE is 0x20000, each a single bit,
\* the two differ, and every base code in use has neither bit and is below
\* EXPERIMENTAL.
C8_FlagBitsDisjoint ==
  /\ (pc = "looked" /\ look.name = "ENVIRONMENT_EXPERIMENTAL")
       => look.value = 65536
  /\ (pc = "looked" /\ look.name = "ENVIRONMENT_PRIVATE")
       => look.value = 131072
  /\ (pc = "looked" /\ look.name \in EnvFlagNames) =>
       /\ Cardinality(Bits(look.value)) = 1
       /\ \A g \in EnvFlagNames \ {look.name} : Catalog[g] # look.value
  /\ (pc = "looked" /\ look.name \in EnvCommandNames) =>
       /\ BitAnd(BaseCode(look.value),
                 BitOr(Catalog["ENVIRONMENT_EXPERIMENTAL"],
                       Catalog["ENVIRONMENT_PRIVATE"])) = 0
       /\ BaseCode(look.value) < Catalog["ENVIRONMENT_EXPERIMENTAL"]

\* PRIVATE was read: the single bit 17, above EXPERIMENTAL's bit 16.
C8_Witness ==
  /\ pc = "looked"
  /\ look.name = "ENVIRONMENT_PRIVATE"
  /\ Bits(look.value) = {17}
  /\ Bits(Catalog["ENVIRONMENT_EXPERIMENTAL"]) = {16}

\* C9: for every base code n in 0..0xFFFF and every set F of flags, n and F
\* are recovered from n | F as (n | F) & 0xFFFF and (n | F) & 0x30000 (so
\* the composition is injective in the pair).
C9_Headroom ==
  pc = "split" => (env.base = env.c /\ env.flags = env.f)

\* The largest code below the flags, with both flags, has been split.
C9_Witness ==
  /\ pc = "split"
  /\ env.c = Bits(65535)
  /\ env.f = Bits(196608)
  /\ env.v = 0..17
  /\ env.base = Bits(65535)
  /\ env.flags = Bits(196608)

\* The memory values of C10.
MemoryValues ==
  "MEMORY_SAVE_RAM" :> 0 @@ "MEMORY_RTC" :> 1 @@ "MEMORY_SYSTEM_RAM" :> 2 @@
  "MEMORY_VIDEO_RAM" :> 3 @@ "MEMORY_MASK" :> 255

\* C10: the memory tags are SAVE_RAM=0, RTC=1, SYSTEM_RAM=2, VIDEO_RAM=3,
\* MEMORY_MASK is 0xFF, and masking a tag gives the tag back.
C10_MemoryTags ==
  /\ (pc = "looked" /\ look.name \in DOMAIN MemoryValues)
       => look.value = MemoryValues[look.name]
  /\ pc = "masked" => mem.out = Bits(Catalog[mem.name])

\* VIDEO_RAM has been masked and came back as 3.
C10_Witness ==
  /\ pc = "masked"
  /\ mem.name = "MEMORY_VIDEO_RAM"
  /\ mem.out = Bits(3)

\* C11: REGION_NTSC is 0, REGION_PAL is 1, and the two differ.
C11_Regions ==
  /\ (pc = "looked" /\ look.name = "REGION_NTSC") => look.value = 0
  /\ (pc = "looked" /\ look.name = "REGION_PAL") => look.value = 1
  /\ (pc = "looked" /\ look.name \in RegionNames) =>
       \A b \in RegionNames \ {look.name} : Catalog[b] # look.value

\* REGION_PAL was read as 1, which is not the value of REGION_NTSC.
C11_Witness ==
  /\ pc = "looked"
  /\ look.name = "REGION_PAL"
  /\ look.value = 1
  /\ Catalog["REGION_NTSC"] # look.value

\* Every constant named DEVICE_ID_*.
DeviceIdNames ==
  JoypadIdNames \cup AnalogIdNames \cup MouseIdNames \cup LightgunIdNames
    \cup LightgunDeprecatedNames \cup PointerIdNames

\* C12 as stated: every constant named DEVICE_ID_JOYPAD_*, DEVICE_ID_ANALOG_*,
\* DEVICE_ID_MOUSE_*, DEVICE_ID_LIGHTGUN_* or DEVICE_ID_POINTER_* has a value
\* in 0..16.
C12_Original ==
  (pc = "looked" /\ look.name \in DeviceIdNames) => look.value \in 0..16

\* C12 as amended: every such constant other than DEVICE_ID_JOYPAD_MASK has
\* a value in 0..16; DEVICE_ID_JOYPAD_MASK is 256.
C12_IdRange ==
  /\ (pc = "looked" /\ look.name \in DeviceIdNames \ {"DEVICE_ID_JOYPAD_MASK"})
       => look.value \in 0..16
  /\ (pc = "looked" /\ look.name = "DEVICE_ID_JOYPAD_MASK")
       => look.value = 256

\* The id with the largest value, the lightgun's RELOAD, was read as 16.
C12_Witness ==
  /\ pc = "looked"
  /\ look.name = "DEVICE_ID_LIGHTGUN_RELOAD"
  /\ look.value = 16

\* Every constant named DEVICE_ID_LIGHTGUN_*, the deprecated ones included.
LightgunAllNames == LightgunIdNames \cup LightgunDeprecatedNames

\* The namespaces of C13 other than the joypad ids.
EnumeratedNamespaces ==
  {DeviceTypeNames, MouseIdNames, LightgunAllNames, PointerIdNames,
   AnalogIdNames, AnalogIndexNames, MemoryTagNames, RegionNames}

\* The value read under a name of NS has no gap below it: every number from
\* 0 up to it is the value of some name of NS.  Holding for every name of
\* NS, this says that the values of NS are exactly 0..max.
DenseBelowLook(NS) ==
  (pc = "looked" /\ look.name \in NS) =>
    \A k \in 0..look.value : \E b \in NS : Catalog[b] = k

\* C13 as stated: in every namespace other than the environment commands,
\* DEVICE_ID_JOYPAD_* among them, the values of all the constants carrying
\* the prefix are exactly 0..max, with no gap.
C13_Original ==
  \A NS \in EnumeratedNamespaces \cup {JoypadIdNames} : DenseBelowLook(NS)

\* C13 as amended: the same with DEVICE_ID_JOYPAD_MASK left out of the
\* joypad ids: the sixteen button ids are exactly 0..15, and
\* DEVICE_ID_JOYPAD_MASK (256) lies above a gap.
C13_DenseEnumerations ==
  /\ \A NS \in EnumeratedNamespaces \cup {JoypadButtonNames} :
       DenseBelowLook(NS)
  /\ (pc = "looked" /\ look.name = "DEVICE_ID_JOYPAD_MASK") =>
       \A b \in JoypadButtonNames : Catalog[b] < 16 /\ look.value > 16

\* The lightgun's largest id was read; every number up to 16 is a lightgun
\* id, 0, 1 and 5 only through the deprecated names.
C13_Witness ==
  /\ pc = "looked"
  /\ look.name = "DEVICE_ID_LIGHTGUN_RELOAD"
  /\ look.value = 16
  /\ \A k \in 0..16 : \E b \in LightgunAllNames : Catalog[b] = k
  /\ \A b \in LightgunIdNames : Catalog[b] \notin {0, 1, 5}

\* The two commands of the source that are numbered 44.
Code44Names ==
  {"ENVIRONMENT_SET_SERIALIZATION_QUIRKS", "ENVIRONMENT_SET_HW_SHARED_CONTEXT"}

\* C14 as stated: no two distinct command names have the same base code
\* (no command name of the source is declared as a deprecated alias).
C14_Original ==
  (pc = "looked" /\ look.name \in EnvCommandNames) =>
    \A b \in EnvCommandNames \ {look.name} :
      BaseCode(Catalog[b]) # BaseCode(look.value)

\* C14 as amended: two distinct command names have the same base code only
\* if they are SET_SERIALIZATION_QUIRKS (44) and SET_HW_SHARED_CONTEXT
\* (44 | EXPERIMENTAL), which do share code 44 and differ in the flag.
C14_CodesReservedOnce ==
  /\ (pc = "looked" /\ look.name \in EnvCommandNames) =>
       \A b \in EnvCommandNames \ {look.name} :
         BaseCode(Catalog[b]) = BaseCode(look.value)
           => {b, look.name} = Code44Names
  /\ (pc = "looked" /\ look.name \in Code44Names) =>
       /\ BaseCode(look.value) = 44
       /\ \A b \in Code44Names \ {look.name} : Catalog[b] # look.value

\* SET_HW_SHARED_CONTEXT was read: its base code is the published value of
\* SET_SERIALIZATION_QUIRKS.
C14_Witness ==
  /\ pc = "looked"
  /\ look.name = "ENVIRONMENT_SET_HW_SHARED_CONTEXT"
  /\ BaseCode(look.value) = 44
  /\ Catalog["ENVIRONMENT_SET_SERIALIZATION_QUIRKS"] = 44

\* The names that carry one of the prefixes DEVICE_, REGION_, MEMORY_ and
\* ENVIRONMENT_.
PrefixedNames ==
  {"DEVICE_TYPE_SHIFT", "DEVICE_MASK", "MEMORY_MASK"}
    \cup DeviceTypeNames \cup DeviceIdNames \cup AnalogIndexNames
    \cup RegionNames \cup MemoryTagNames \cup EnvFlagNames
    \cup EnvCommandNames

\* C15: the catalog has one API-version constant, API_VERSION, and its
\* value is 1 whenever it is read: the only name outside the four prefixes
\* is API_VERSION, and every read of it gives 1.
C15_ApiVersion ==
  /\ (pc = "looked" /\ look.name \notin PrefixedNames)
       => look.name = "API_VERSION"
  /\ (pc = "looked" /\ look.name = "API_VERSION") => look.value = 1

\* API_VERSION was read as 1.
C15_Witness ==
  /\ pc = "looked"
  /\ look.name = "API_VERSION"
  /\ look.name \notin PrefixedNames
  /\ look.value = 1

\* C16: with concurrent readers, under every interleaving of their lookups,
\* every binding still has its initial value and every value a reader holds
\* is the initial value of the name it read.
C16_NeverMutated ==
  /\ \A n \in ReaderNames : table[n] = Catalog[n]
  /\ \A r \in Readers :
       rd[r].pc = "done" => rd[r].value = Catalog[rd[r].name]

\* Two readers hold DEVICE_MASK at once, both as 255.
C16_Witness ==
  /\ \A r \in Readers : rd[r].pc = "done" /\ rd[r].name = "DEVICE_MASK"
  /\ \A r \in Readers : rd[r].value = 255

\* C18 as stated: DEVICE_ID_LIGHTGUN_TRIGGER, the deprecated
\* DEVICE_ID_LIGHTGUN_CURSOR and DEVICE_ID_MOUSE_LEFT all have the value 2.
C18_Original ==
  (/\ pc = "looked"
   /\ look.name \in {"DEVICE_ID_LIGHTGUN_TRIGGER", "DEVICE_ID_LIGHTGUN_CURSOR",
                     "DEVICE_ID_MOUSE_LEFT"})
    => look.value = 2

\* C18 as amended: DEVICE_ID_LIGHTGUN_TRIGGER and DEVICE_ID_MOUSE_LEFT have
\* the value 2; the deprecated DEVICE_ID_LIGHTGUN_CURSOR has the value 3,
\* that of DEVICE_ID_LIGHTGUN_AUX_A and of DEVICE_ID_MOUSE_RIGHT; so values
\* are shared across namespaces.
C18_SharedValues ==
  /\ (pc = "looked" /\ look.name = "DEVICE_ID_LIGHTGUN_TRIGGER") =>
       /\ look.value = 2
       /\ look.value = Catalog["DEVICE_ID_MOUSE_LEFT"]
  /\ (pc = "looked" /\ look.name = "DEVICE_ID_MOUSE_LEFT") => look.value = 2
  /\ (pc = "looked" /\ look.name = "DEVICE_ID_LIGHTGUN_CURSOR") =>
       /\ look.value = 3
       /\ look.value = Catalog["DEVICE_ID_LIGHTGUN_AUX_A"]
       /\ look.value = Catalog["DEVICE_ID_MOUSE_RIGHT"]

\* TRIGGER was read as 2, the value of the mouse's left button.
C18_Witness ==
  /\ pc = "looked"
  /\ look.name = "DEVICE_ID_LIGHTGUN_TRIGGER"
  /\ look.value = 2
  /\ Catalog["DEVICE_ID_MOUSE_LEFT"] = 2

\* The u32 with the bits b, modulo m, by arithmetic: bit W-1 is worth
\* 2 * 2^(W-2).
U32Mod(b, m) ==
  ((IF (W - 1) \in b THEN (2 * ((2 ^ (W - 2)) % m)) % m ELSE 0)
     + (Val(b \ {W - 1}) % m)) % m

\* C19: DEVICE_MASK is (1 << DEVICE_TYPE_SHIFT) - 1 = 255, exactly the
\* DEVICE_TYPE_SHIFT lowest bits, and x & DEVICE_MASK = x mod
\* 2^DEVICE_TYPE_SHIFT for every u32 x.
C19_MaskFormula ==
  /\ (pc = "looked" /\ look.name = "DEVICE_MASK") =>
       /\ look.value = Shl(1, Catalog["DEVICE_TYPE_SHIFT"]) - 1
       /\ look.value = 255
       /\ Bits(look.value) = 0..(Catalog["DEVICE_TYPE_SHIFT"] - 1)
  /\ pc = "devmasked" =>
       Val(dev.outd) = U32Mod(dev.v, 2 ^ Catalog["DEVICE_TYPE_SHIFT"])

\* 0xFFFFFF00 + 0xAB has been masked: what is left is 0xAB = 171.
C19_Witness ==
  /\ pc = "devmasked"
  /\ dev.v = {0, 1, 3, 5, 7}
  /\ dev.outd = dev.v
  /\ Val(dev.outd) = 171

\* The base codes of the defined environment commands, and the range they
\* span.
DefinedBaseCodes == {BaseCode(Catalog[n]) : n \in EnvCommandNames}

HighestBaseCode ==
  CHOOSE m \in DefinedBaseCodes : \A k \in DefinedBaseCodes : k <= m

BaseCodeRange == 1..HighestBaseCode

\* C20: for every base command code n in 1..73 and each single flag f of
\* ENVIRONMENT_EXPERIMENTAL and ENVIRONMENT_PRIVATE, (n | f) & !f = n,
\* n | f = n + f, and n | f is none of the unflagged base codes 1..73.
C20_BaseCodeComposition ==
  (/\ pc = "stripped"
   /\ Val(env.c) \in BaseCodeRange
   /\ env.f \in {Bits(Catalog[f]) : f \in EnvFlagNames}) =>
     /\ HighestBaseCode = 73
     /\ env.base = env.c
     /\ Val(env.v) = Val(env.c) + Val(env.f)
     /\ Val(env.v) \notin BaseCodeRange

\* 73 | ENVIRONMENT_PRIVATE = 0x20049 has been stripped back to 73.
C20_Witness ==
  /\ pc = "stripped"
  /\ Val(env.c) = HighestBaseCode
  /\ env.f = Bits(Catalog["ENVIRONMENT_PRIVATE"])
  /\ Val(env.v) = (2 ^ 17) + 73
  /\ env.base = env.c

\* The RetroPad buttons in the order of their ids.
JoypadOrder ==
  <<"DEVICE_ID_JOYPAD_B", "DEVICE_ID_JOYPAD_Y", "DEVICE_ID_JOYPAD_SELECT",
    "DEVICE_ID_JOYPAD_START", "DEVICE_ID_JOYPAD_UP", "DEVICE_ID_JOYPAD_DOWN",
    "DEVICE_ID_JOYPAD_LEFT", "DEVICE_ID_JOYPAD_RIGHT", "DEVICE_ID_JOYPAD_A",
    "DEVICE_ID_JOYPAD_X", "DEVICE_ID_JOYPAD_L", "DEVICE_ID_JOYPAD_R",
    "DEVICE_ID_JOYPAD_L2", "DEVICE_ID_JOYPAD_R2", "DEVICE_ID_JOYPAD_L3",
    "DEVICE_ID_JOYPAD_R3">>

\* C21: the RetroPad button ids are the sixteen values 0..15 in the order
\* B, Y, SELECT, START, UP, DOWN, LEFT, RIGHT, A, X, L, R, L2, R2, L3, R3,
\* pairwise distinct and with no gap.
C21_JoypadOrder ==
  (pc = "looked" /\ look.name \in JoypadButtonNames) =>
    /\ Len(JoypadOrder) = 16
    /\ {JoypadOrder[i] : i \in 1..Len(JoypadOrder)} = JoypadButtonNames
    /\ \E i \in 1..Len(JoypadOrder) :
         JoypadOrder[i] = look.name /\ look.value = i - 1
    /\ \A b \in JoypadButtonNames \ {look.name} : Catalog[b] # look.value
    /\ {Catalog[b] : b \in JoypadButtonNames} = 0..15

\* The ninth button, A, was read as 8.
C21_Witness ==
  /\ pc = "looked"
  /\ look.name = "DEVICE_ID_JOYPAD_A"
  /\ look.name = JoypadOrder[9]
  /\ look.value = 8

\* C22: DEVICE_ID_JOYPAD_MASK (256) differs from each of the sixteen button
\* ids, so a query for a button is never answered with the bitmask; the
\* bits 1 << id of the sixteen buttons are pairwise distinct and their OR
\* is 0xFFFF, within 16 bits.
C22_JoypadBitmask ==
  /\ (pc = "looked" /\ look.name = "DEVICE_ID_JOYPAD_MASK") =>
       /\ look.value = 256
       /\ \A b \in JoypadButtonNames : Catalog[b] # look.value
  /\ (pc = "padstate" /\ inp.id \in JoypadButtonNames) =>
       inp.out = IF inp.id \in inp.held THEN {0} ELSE {}
  /\ (pc = "padstate" /\ inp.id = "DEVICE_ID_JOYPAD_MASK") =>
       /\ Cardinality(inp.out) = Cardinality(inp.held)
       /\ inp.out = {Catalog[b] : b \in inp.held}
       /\ inp.out \subseteq 0..15
       /\ inp.held = JoypadButtonNames => Val(inp.out) = (2 ^ 16) - 1

\* All sixteen buttons held and the bitmask asked for: 0xFFFF came back.
C22_Witness ==
  /\ pc = "padstate"
  /\ inp.id = "DEVICE_ID_JOYPAD_MASK"
  /\ inp.held = JoypadButtonNames
  /\ Val(inp.out) = 65535

\* C23: for every device type d, 1 << d is a single bit of the 64-bit
\* capability mask (non-zero and below 2^64), the seven bits are pairwise
\* distinct, and (1 << DEVICE_JOYPAD) | (1 << DEVICE_ANALOG) is 34.
C23_DeviceCapabilities ==
  pc = "caps" =>
    /\ inp.out = {Catalog[d] : d \in inp.devs}
    /\ Cardinality(inp.out) = Cardinality(inp.devs)
    /\ inp.out \subseteq 0..(CapsWidth - 1)
    /\ inp.devs = {"DEVICE_JOYPAD", "DEVICE_ANALOG"} => Val(inp.out) = 34
    /\ inp.devs = DeviceTypeNames => Val(inp.out) = (2 ^ 7) - 1

\* The documented example mask was built: bits 1 and 5.
C23_Witness ==
  /\ pc = "caps"
  /\ inp.devs = {"DEVICE_JOYPAD", "DEVICE_ANALOG"}
  /\ inp.out = {1, 5}

\* C24: a command's published value carries the ENVIRONMENT_EXPERIMENTAL bit
\* exactly when its base code is one of 25, 26, 36, 40..43, 45..51, 71..73
\* or the command is ENVIRONMENT_SET_HW_SHARED_CONTEXT (base 44); every
\* other command's value is its base code, and no command carries the
\* ENVIRONMENT_PRIVATE bit.
C24_ExperimentalSet ==
  (pc = "looked" /\ look.name \in EnvCommandNames) =>
    /\ (Bits(Catalog["ENVIRONMENT_EXPERIMENTAL"]) \subseteq Bits(look.value))
         <=> (\/ BaseCode(look.value) \in
                   {25, 26, 36} \cup (40..43) \cup (45..51) \cup (71..73)
              \/ look.name = "ENVIRONMENT_SET_HW_SHARED_CONTEXT")
    /\ (Bits(Catalog["ENVIRONMENT_EXPERIMENTAL"]) \subseteq Bits(look.value))
         <=> look.name \in ExperimentalCommandNames
    /\ look.name = "ENVIRONMENT_SET_HW_SHARED_CONTEXT" =>
         BaseCode(look.value) = 44
    /\ look.name \notin ExperimentalCommandNames =>
         look.value = BaseCode(look.value)
    /\ AndB(Bits(look.value), Bits(Catalog["ENVIRONMENT_PRIVATE"])) = {}
    /\ Cardinality(ExperimentalCommandNames) = 18

\* An experimental command was read: 51 | 0x10000.
C24_Witness ==
  /\ pc = "looked"
  /\ look.name = "ENVIRONMENT_GET_INPUT_BITMASKS"
  /\ look.value = (2 ^ 16) + 51

\* C25: the base codes bound to some ENVIRONMENT_* command are exactly
\* 1..73 without 4, 5 and 20: 70 distinct base codes under 71 names.
C25_SparseCommandSpace ==
  /\ (pc = "looked" /\ look.name \in EnvCommandNames) =>
       /\ BaseCode(look.value) \in (1..73) \ {4, 5, 20}
       /\ Cardinality(DefinedBaseCodes) = 70
       /\ Cardinality(EnvCommandNames) = 71
  /\ pc = "encoded" =>
       ((\E n \in EnvCommandNames : BaseCode(Catalog[n]) = Val(env.c))
          <=> Val(env.c) \in (1..73) \ {4, 5, 20})

\* The unassigned code 20 was encoded: no command has it.
C25_Witness ==
  /\ pc = "encoded"
  /\ Val(env.c) = 20
  /\ env.f = {}
  /\ \A n \in EnvCommandNames : BaseCode(Catalog[n]) # 20

\* The values of the DEVICE_ID_LIGHTGUN_* ids, deprecated ones included.
LightgunValues ==
  "DEVICE_ID_LIGHTGUN_SCREEN_X" :> 13 @@
  "DEVICE_ID_LIGHTGUN_SCREEN_Y" :> 14 @@
  "DEVICE_ID_LIGHTGUN_IS_OFFSCREEN" :> 15 @@
  "DEVICE_ID_LIGHTGUN_TRIGGER" :> 2 @@
  "DEVICE_ID_LIGHTGUN_RELOAD" :> 16 @@
  "DEVICE_ID_LIGHTGUN_AUX_A" :> 3 @@
  "DEVICE_ID_LIGHTGUN_AUX_B" :> 4 @@
  "DEVICE_ID_LIGHTGUN_START" :> 6 @@
  "DEVICE_ID_LIGHTGUN_SELECT" :> 7 @@
  "DEVICE_ID_LIGHTGUN_AUX_C" :> 8 @@
  "DEVICE_ID_LIGHTGUN_DPAD_UP" :> 9 @@
  "DEVICE_ID_LIGHTGUN_DPAD_DOWN" :> 10 @@
  "DEVICE_ID_LIGHTGUN_DPAD_LEFT" :> 11 @@
  "DEVICE_ID_LIGHTGUN_DPAD_RIGHT" :> 12 @@
  "DEVICE_ID_LIGHTGUN_X" :> 0 @@
  "DEVICE_ID_LIGHTGUN_Y" :> 1 @@
  "DEVICE_ID_LIGHTGUN_CURSOR" :> 3 @@
  "DEVICE_ID_LIGHTGUN_TURBO" :> 4 @@
  "DEVICE_ID_LIGHTGUN_PAUSE" :> 5

\* The non-deprecated lightgun ids with the value v.
LightgunHolders(v) == {b \in LightgunIdNames : Catalog[b] = v}

\* C26: the fourteen non-deprecated DEVICE_ID_LIGHTGUN_* ids have the listed
\* values and are pairwise distinct; of the deprecated ids X=0, Y=1,
\* CURSOR=3, TURBO=4, PAUSE=5, exactly CURSOR and TURBO duplicate a
\* non-deprecated id (AUX_A and AUX_B), and X, Y and PAUSE hold values no
\* non-deprecated id uses.
C26_LightgunAliases ==
  /\ (pc = "looked" /\ look.name \in LightgunAllNames) =>
       /\ DOMAIN LightgunValues = LightgunAllNames
       /\ look.value = LightgunValues[look.name]
  /\ (pc = "looked" /\ look.name \in LightgunIdNames) =>
       /\ Cardinality(LightgunIdNames) = 14
       /\ LightgunHolders(look.value) = {look.name}
  /\ (pc = "looked" /\ look.name \in LightgunDeprecatedNames) =>
       LightgunHolders(look.value) =
         CASE look.name = "DEVICE_ID_LIGHTGUN_CURSOR" ->
                {"DEVICE_ID_LIGHTGUN_AUX_A"}
           [] look.name = "DEVICE_ID_LIGHTGUN_TURBO" ->
                {"DEVICE_ID_LIGHTGUN_AUX_B"}
           [] OTHER -> {}

\* The deprecated TURBO was read: 4, the value of AUX_B alone.
C26_Witness ==
  /\ pc = "looked"
  /\ look.name = "DEVICE_ID_LIGHTGUN_TURBO"
  /\ look.value = 4
  /\ LightgunHolders(look.value) = {"DEVICE_ID_LIGHTGUN_AUX_B"}

\* C27: DEVICE_INDEX_ANALOG_LEFT = 0, _RIGHT = 1 and _BUTTON = 2 are pairwise
\* distinct and DEVICE_ID_ANALOG_X = 0, _Y = 1 are distinct, so each
\* (index, id) pair names one analog control only: the four stick axes are
\* pairwise distinct and the button index never coincides with a stick index.
C27_AnalogAddressing ==
  /\ (pc = "looked" /\ look.name \in AnalogIndexNames) =>
       /\ look.value =
            CASE look.name = "DEVICE_INDEX_ANALOG_LEFT" -> 0
              [] look.name = "DEVICE_INDEX_ANALOG_RIGHT" -> 1
              [] look.name = "DEVICE_INDEX_ANALOG_BUTTON" -> 2
       /\ \A a \in AnalogIndexNames \ {look.name} : Catalog[a] # look.value
  /\ (pc = "looked" /\ look.name \in AnalogIdNames) =>
       /\ look.value = IF look.name = "DEVICE_ID_ANALOG_X" THEN 0 ELSE 1
       /\ \A a \in AnalogIdNames \ {look.name} : Catalog[a] # look.value
  /\ pc = "analog" =>
       /\ inp.out = {<<inp.index, inp.id>>}
       /\ inp.index = "DEVICE_INDEX_ANALOG_BUTTON" => Catalog[inp.id] \in 0..15

\* The right stick's Y axis was asked for as (1, 1) and found alone.
C27_Witness ==
  /\ pc = "analog"
  /\ inp.index = "DEVICE_INDEX_ANALOG_RIGHT"
  /\ inp.id = "DEVICE_ID_ANALOG_Y"
  /\ Catalog[inp.index] = 1
  /\ Catalog[inp.id] = 1
  /\ inp.out = {<<"DEVICE_INDEX_ANALOG_RIGHT", "DEVICE_ID_ANALOG_Y">>}

\* The largest non-negative signed 32-bit integer.
MaxSigned == ((2 ^ (W - 2)) - 1) + (2 ^ (W - 2))

\* C28: no constant expression wraps around modulo 2^32:
\* (1 << DEVICE_TYPE_SHIFT) - 1 is 2^DEVICE_TYPE_SHIFT - 1 and every
\* n | ENVIRONMENT_EXPERIMENTAL is n + ENVIRONMENT_EXPERIMENTAL; every
\* published value lies in 0..0x20000, the largest being ENVIRONMENT_PRIVATE
\* and the largest command 73 | 0x10000 = 65609; so every value is a
\* non-negative signed 32-bit integer too.
C28_NoOverflow ==
  pc = "looked" =>
    /\ look.value \in 0..(2 ^ 17)
    /\ look.value <= MaxSigned
    /\ look.value <= Catalog["ENVIRONMENT_PRIVATE"]
    /\ look.name # "ENVIRONMENT_PRIVATE" =>
         look.value < Catalog["ENVIRONMENT_PRIVATE"]
    /\ look.name = "DEVICE_MASK" =>
         /\ Catalog["DEVICE_TYPE_SHIFT"] < W
         /\ look.value = (2 ^ Catalog["DEVICE_TYPE_SHIFT"]) - 1
    /\ look.name \in ExperimentalCommandNames =>
         look.value = BaseCode(look.value) + Catalog["ENVIRONMENT_EXPERIMENTAL"]
    /\ look.name \in EnvCommandNames =>
         /\ look.value <= 65609
         /\ look.value <=
              Catalog["ENVIRONMENT_GET_HW_RENDER_CONTEXT_NEGOTIATION_INTERFACE_SUPPORT"]

\* The largest command was read: 73 | 0x10000 = 65609.
C28_Witness ==
  /\ pc = "looked"
  /\ look.name = "ENVIRONMENT_GET_HW_RENDER_CONTEXT_NEGOTIATION_INTERFACE_SUPPORT"
  /\ look.value = 65609
  /\ look.value = 73 + Catalog["ENVIRONMENT_EXPERIMENTAL"]

====
